---- MODULE Spec2Model ----
(***************************************************************************)
(* Model of Game2048 (src/game_2048.py): a 4x4 board of tile exponents     *)
(* packed four bits per cell into one 64-bit integer, with tile spawning,  *)
(* line merging, the four moves and terminal-state detection.              *)
(*                                                                         *)
(* The packed board is kept as four 16-bit limbs, limb k holding bits      *)
(* 16k..16k+15 of self.board, so that the shifts and masks of get_cell and *)
(* set_cell are computed by integer arithmetic on numbers TLC can hold.    *)
(***************************************************************************)
EXTENDS Integers, Sequences, FiniteSets

VARIABLES
    board,      \* self.board, as four 16-bit limbs
    pre,        \* self.board when the last operation was entered
    op,         \* the last operation: "init", "set_board", "move", ...
    direction,  \* move's direction argument ("" when the operation has none)
    spawn,      \* move's spawn_tile argument
    arg_index,  \* the cell, row or column index given to set_cell, set_row, set_column
    arg_value,  \* set_cell's value argument
    line,       \* the line given to process_line, set_row, set_column
    out,        \* process_line's return value
    ret,        \* the boolean returned by move, spawn_tile, is_game_over
    raised,     \* "ValueError" when the operation raised, else "none"
    calls       \* the moves played since construction, in a played game

vars == <<board, pre, op, direction, spawn, arg_index, arg_value, line, out, ret, raised, calls>>

(***************************************************************************)
(* Bounds of the model.                                                    *)
(***************************************************************************)
\* The rows of the boards a caller assigns are the first NumLines of LineList.
NumLines == 5

LineList ==
    << <<0, 0, 0, 0>>,
       <<1, 2, 1, 2>>,
       <<2, 1, 2, 1>>,
       <<15, 15, 15, 15>>,
       <<1, 1, 0, 0>>,
       <<0, 14, 14, 15>>,
       <<3, 0, 3, 3>> >>

Lines == { LineList[k] : k \in 1..NumLines }

\* Every line of four exponents: the inputs of process_line.
AllLines == [1..4 -> 0..15]

\* set_cell is given the values 0..MaxValue.
MaxValue == 17

\* A played game is followed for MaxMoves moves.
MaxMoves == 1

\* The lines given to set_row and set_column: the rows above, the line of
\* test_set_get_row, and every line of empty cells and 15s.
AccessLines == Lines \cup {<<1, 2, 3, 4>>} \cup [1..4 -> {0, 15}]

\* The direction arguments tried, valid and not.
Directions == {"left", "right", "up", "down", "invalid_direction", ""}

NoLine == <<0, 0, 0, 0>>

(***************************************************************************)
(* The packed board.                                                       *)
(***************************************************************************)
Pow2(n) == 2 ^ n

EmptyBoard == [k \in 0..3 |-> 0]

\* (self.board >> shift) & 0xF
get_cell(b, index) ==
    LET shift == index * 4
    IN  (b[shift \div 16] \div Pow2(shift % 16)) % 16

\* (mutant) the value is not masked to four bits
set_cell_unmasked(b, index, value) ==
    LET shift   == index * 4
        k       == shift \div 16
        p       == Pow2(shift % 16)
        cleared == b[k] - ((b[k] \div p) % 16) * p
    IN  [b EXCEPT ![k] = cleared + value * p]

\* self.board &= ~(0xF << shift); self.board |= (value & 0xF) << shift
set_cell(b, index, value) ==
    LET shift   == index * 4
        k       == shift \div 16
        p       == Pow2(shift % 16)
        cleared == b[k] - ((b[k] \div p) % 16) * p
    IN  [b EXCEPT ![k] = cleared + (value % 16) * p]

get_row(b, row_index) == [col \in 1..4 |-> get_cell(b, row_index * 4 + (col - 1))]

get_column(b, col_index) == [row \in 1..4 |-> get_cell(b, (row - 1) * 4 + col_index)]

RECURSIVE set_row_from(_, _, _, _)
set_row_from(b, row_index, l, col) ==
    IF col = 4 THEN b
    ELSE set_row_from(set_cell(b, row_index * 4 + col, l[col + 1]), row_index, l, col + 1)

set_row(b, row_index, l) == set_row_from(b, row_index, l, 0)

\* (mutant) row and column are swapped in the cell index
RECURSIVE set_column_from_swapped(_, _, _, _)
set_column_from_swapped(b, col_index, l, row) ==
    IF row = 4 THEN b
    ELSE set_column_from_swapped(set_cell(b, col_index * 4 + row, l[row + 1]),
                                 col_index, l, row + 1)

RECURSIVE set_column_from(_, _, _, _)
set_column_from(b, col_index, l, row) ==
    IF row = 4 THEN b
    ELSE set_column_from(set_cell(b, row * 4 + col_index, l[row + 1]), col_index, l, row + 1)

set_column(b, col_index, l) == set_column_from(b, col_index, l, 0)

empty_cells(b) == { i \in 0..15 : get_cell(b, i) = 0 }

(***************************************************************************)
(* process_line: compact, merge once from the leading end, pad.            *)
(***************************************************************************)
Reverse(l) == [k \in 1..Len(l) |-> l[Len(l) + 1 - k]]

NonZero(v) == v # 0

\* new_line = [v for v in line if v != 0]
Compact(l) == SelectSeq(l, NonZero)

\* (mutant) the merged exponent is not capped
merged_exponent_uncapped(e) == e + 1

\* (mutant) the merged exponent is masked to four bits, not capped
merged_exponent_wrapped(e) == (e + 1) % 16

\* min(new_line[i] + 1, 15)
merged_exponent(e) == IF e + 1 < 15 THEN e + 1 ELSE 15

\* whether the tile at (0-based) i merges with the next one
merges_with_next(new_line, i) ==
    i + 1 < Len(new_line) /\ new_line[i + 1] = new_line[i + 2]

\* (mutant) a tile equal to the last tile put out is merged into it, merged or not
RECURSIVE merge_from_chained(_, _, _, _)
merge_from_chained(new_line, i, skip, merged_line) ==
    IF i >= Len(new_line) THEN merged_line
    ELSE IF merged_line # <<>> /\ merged_line[Len(merged_line)] = new_line[i + 1]
         THEN merge_from_chained(new_line, i + 1, FALSE,
                  [merged_line EXCEPT ![Len(merged_line)] = merged_exponent(new_line[i + 1])])
         ELSE merge_from_chained(new_line, i + 1, FALSE,
                                 Append(merged_line, new_line[i + 1]))

\* (mutant) the skip flag is never set: the second tile of a pair stays
RECURSIVE merge_from_no_skip(_, _, _, _)
merge_from_no_skip(new_line, i, skip, merged_line) ==
    IF i >= Len(new_line) THEN merged_line
    ELSE IF merges_with_next(new_line, i)
         THEN merge_from_no_skip(new_line, i + 1, FALSE,
                                 Append(merged_line, merged_exponent(new_line[i + 1])))
         ELSE merge_from_no_skip(new_line, i + 1, FALSE,
                                 Append(merged_line, new_line[i + 1]))

\* the for loop of process_line, from index i with the skip flag
RECURSIVE merge_from(_, _, _, _)
merge_from(new_line, i, skip, merged_line) ==
    IF i >= Len(new_line) THEN merged_line
    ELSE IF skip THEN merge_from(new_line, i + 1, FALSE, merged_line)
    ELSE IF merges_with_next(new_line, i)
         THEN merge_from(new_line, i + 1, TRUE,
                         Append(merged_line, merged_exponent(new_line[i + 1])))
         ELSE merge_from(new_line, i + 1, FALSE, Append(merged_line, new_line[i + 1]))

\* (mutant) the zeros are put in front of the tiles
Pad_front(merged_line) ==
    [k \in 1..(4 - Len(merged_line)) |-> 0] \o merged_line

\* merged_line.extend([0] * (4 - len(merged_line)))
Pad(merged_line) ==
    merged_line \o [k \in 1..(4 - Len(merged_line)) |-> 0]

process_line(l) == Pad(merge_from(Compact(l), 0, FALSE, <<>>))

(***************************************************************************)
(* move: the four branches, one line at a time.                            *)
(***************************************************************************)
\* (mutant) the last branch is a plain else: any other direction runs over columns
ValidDirections_open == {"left", "right", "up", "down", "invalid_direction"}

\* the branches of move; any other direction reaches the raise
ValidDirections == {"left", "right", "up", "down"}

\* the line read by the branch of `d` at index k
read_line(b, d, k) ==
    IF d \in {"left", "right"} THEN get_row(b, k) ELSE get_column(b, k)

\* (mutant) the line is never reversed
new_line_for_unreversed(d, l) == process_line(l)

\* the line the branch of `d` writes back for `l`
new_line_for(d, l) ==
    IF d \in {"right", "down"} THEN Reverse(process_line(Reverse(l)))
    ELSE process_line(l)

write_line(b, d, k, l) ==
    IF d \in {"left", "right"} THEN set_row(b, k, l) ELSE set_column(b, k, l)

\* (mutant) compares the leading cells only
line_changed_leading(new_line, l) == new_line[1] # l[1]

\* if new_line != line: moved = True
line_changed(new_line, l) == new_line # l

\* (mutant) moved is assigned, not or-ed: only the last line counts
RECURSIVE move_lines_last(_, _, _, _)
move_lines_last(b, d, k, moved) ==
    IF k = 4 THEN [board |-> b, moved |-> moved]
    ELSE LET l        == read_line(b, d, k)
             new_line == new_line_for(d, l)
         IN  move_lines_last(write_line(b, d, k, new_line), d, k + 1,
                             line_changed(new_line, l))

\* the loop `for row in range(4)` / `for col in range(4)` from index k
RECURSIVE move_lines(_, _, _, _)
move_lines(b, d, k, moved) ==
    IF k = 4 THEN [board |-> b, moved |-> moved]
    ELSE LET l        == read_line(b, d, k)
             new_line == new_line_for(d, l)
         IN  move_lines(write_line(b, d, k, new_line), d, k + 1,
                        moved \/ line_changed(new_line, l))

\* the board and return value of move(d, spawn_tile=False), d a valid direction
move_result(b, d) == move_lines(b, d, 0, FALSE)

(***************************************************************************)
(* spawn_tile and is_game_over.                                            *)
(***************************************************************************)
\* (mutant) tile values in place of exponents
spawn_values_tiles == {2, 4}

\* value = 1 if random.random() < 0.9 else 2
spawn_values == {1, 2}

\* (mutant) the cell is drawn from all sixteen, not from the empty ones
spawn_results_any_cell(b) ==
    { set_cell(b, index, value) : index \in 0..15, value \in spawn_values }

\* the boards spawn_tile may leave, from a board with an empty cell
spawn_results(b) ==
    { set_cell(b, index, value) : index \in empty_cells(b), value \in spawn_values }

\* (mutant) the down neighbour is not looked at
RECURSIVE no_merge_from_right_only(_, _)
no_merge_from_right_only(b, k) ==
    IF k = 16 THEN TRUE
    ELSE LET row     == k \div 4
             col     == k % 4
             current == get_cell(b, row * 4 + col)
         IN  IF col < 3 /\ current = get_cell(b, row * 4 + col + 1) THEN FALSE
             ELSE no_merge_from_right_only(b, k + 1)

\* the second loop of is_game_over, cells in row-major order from cell k
RECURSIVE no_merge_from(_, _)
no_merge_from(b, k) ==
    IF k = 16 THEN TRUE
    ELSE LET row     == k \div 4
             col     == k % 4
             current == get_cell(b, row * 4 + col)
         IN  IF col < 3 /\ current = get_cell(b, row * 4 + col + 1) THEN FALSE
             ELSE IF row < 3 /\ current = get_cell(b, (row + 1) * 4 + col) THEN FALSE
             ELSE no_merge_from(b, k + 1)

is_game_over(b) ==
    IF empty_cells(b) # {} THEN FALSE ELSE no_merge_from(b, 0)

\* (mutant) the second spawn draws its cell from the cells empty before the first
reset_results_stale ==
    { set_cell(b1, index, value) :
        b1 \in spawn_results(EmptyBoard), index \in 0..15, value \in spawn_values }

\* the boards reset() may leave: board = 0, then two spawns
reset_results ==
    UNION { spawn_results(b1) : b1 \in spawn_results(EmptyBoard) }

(***************************************************************************)
(* The boards a caller assigns before an operation, as the tests do with   *)
(* `self.game.board = 0` followed by writes of the cells.                  *)
(***************************************************************************)
board_of_rows(r0, r1, r2, r3) ==
    set_row(set_row(set_row(set_row(EmptyBoard, 0, r0), 1, r1), 2, r2), 3, r3)

\* the full boards of test_no_move_possible and test_game_not_over
TestBoards ==
    { board_of_rows(<<1, 2, 3, 4>>, <<2, 3, 4, 5>>, <<3, 4, 5, 6>>, <<4, 5, 6, 7>>),
      board_of_rows(<<1, 1, 2, 2>>, <<1, 1, 2, 2>>, <<1, 1, 2, 2>>, <<1, 1, 2, 2>>) }

Boards ==
    TestBoards \cup { board_of_rows(r0, r1, r2, r3) : r0 \in Lines, r1 \in Lines,
                                                     r2 \in Lines, r3 \in Lines }

(***************************************************************************)
(* State machine.  A game is constructed; the caller may assign a board;   *)
(* one operation is then called on it.                                     *)
(***************************************************************************)
Init ==
    /\ board \in reset_results
    /\ pre = EmptyBoard
    /\ op = "init"
    /\ direction = ""
    /\ spawn = FALSE
    /\ arg_index = 0
    /\ arg_value = 0
    /\ line = NoLine
    /\ out = NoLine
    /\ ret = TRUE
    /\ raised = "none"
    /\ calls = 0

\* the game is ready for a call: constructed, or given a board
Ready == op \in {"init", "set_board"}

NoCell == arg_index' = 0 /\ arg_value' = 0

NoArgs == direction' = "" /\ spawn' = FALSE /\ NoCell /\ line' = NoLine /\ out' = NoLine

SetBoard ==
    /\ op = "init"
    /\ \E b \in Boards : board' = b /\ pre' = b
    /\ op' = "set_board"
    /\ NoArgs
    /\ calls' = calls
    /\ ret' = TRUE
    /\ raised' = "none"

Reset ==
    /\ Ready
    /\ board' \in reset_results
    /\ pre' = board
    /\ op' = "reset"
    /\ NoArgs
    /\ calls' = calls
    /\ ret' = TRUE
    /\ raised' = "none"

SpawnTile ==
    /\ Ready
    /\ pre' = board
    /\ op' = "spawn_tile"
    /\ NoArgs
    /\ calls' = calls
    /\ raised' = "none"
    /\ IF empty_cells(board) = {}
       THEN board' = board /\ ret' = FALSE
       ELSE board' \in spawn_results(board) /\ ret' = TRUE

MoveInvalid ==
    /\ Ready
    /\ \E d \in Directions \ ValidDirections, s \in BOOLEAN :
          direction' = d /\ spawn' = s
    /\ pre' = board
    /\ op' = "move"
    /\ NoCell /\ line' = NoLine /\ out' = NoLine
    /\ calls' = calls
    /\ board' = board
    /\ ret' = FALSE
    /\ raised' = "ValueError"

\* move(d, spawn_tile=s) with d one of the four directions
MoveCall(d, s) ==
    /\ \E r \in {move_result(board, d)} :
          /\ direction' = d /\ spawn' = s
          /\ ret' = r.moved
          /\ IF r.moved /\ s /\ empty_cells(r.board) # {}
             THEN board' \in spawn_results(r.board)
             ELSE board' = r.board
    /\ pre' = board
    /\ op' = "move"
    /\ NoCell /\ line' = NoLine /\ out' = NoLine
    /\ raised' = "none"

Move ==
    /\ Ready
    /\ \E d \in Directions \cap ValidDirections, s \in BOOLEAN : MoveCall(d, s)
    /\ calls' = calls

IsGameOver ==
    /\ Ready
    /\ pre' = board
    /\ op' = "is_game_over"
    /\ NoArgs
    /\ calls' = calls
    /\ board' = board
    /\ ret' = is_game_over(board)
    /\ raised' = "none"

ProcessLine ==
    /\ op = "set_board" /\ board = EmptyBoard
    /\ \E l \in AllLines : line' = l /\ out' = process_line(l)
    /\ pre' = board
    /\ op' = "process_line"
    /\ direction' = "" /\ spawn' = FALSE /\ NoCell
    /\ calls' = calls
    /\ board' = board
    /\ ret' = TRUE
    /\ raised' = "none"

Next ==
    \/ SetBoard
    \/ Reset
    \/ SpawnTile
    \/ MoveInvalid
    \/ Move
    \/ IsGameOver
    \/ ProcessLine

Spec == Init /\ [][Next]_vars

(***************************************************************************)
(* The cell, row and column writers, each called once on a board.          *)
(***************************************************************************)
SetCell ==
    /\ Ready
    /\ \E i \in 0..15, v \in 0..MaxValue :
          arg_index' = i /\ arg_value' = v /\ board' = set_cell(board, i, v)
    /\ pre' = board
    /\ op' = "set_cell"
    /\ direction' = "" /\ spawn' = FALSE /\ line' = NoLine /\ out' = NoLine
    /\ ret' = TRUE
    /\ raised' = "none"
    /\ calls' = calls

SetRow ==
    /\ Ready
    /\ \E r \in 0..3, l \in AccessLines :
          arg_index' = r /\ line' = l /\ board' = set_row(board, r, l)
    /\ pre' = board
    /\ op' = "set_row"
    /\ direction' = "" /\ spawn' = FALSE /\ arg_value' = 0 /\ out' = NoLine
    /\ ret' = TRUE
    /\ raised' = "none"
    /\ calls' = calls

SetColumn ==
    /\ Ready
    /\ \E c \in 0..3, l \in AccessLines :
          arg_index' = c /\ line' = l /\ board' = set_column(board, c, l)
    /\ pre' = board
    /\ op' = "set_column"
    /\ direction' = "" /\ spawn' = FALSE /\ arg_value' = 0 /\ out' = NoLine
    /\ ret' = TRUE
    /\ raised' = "none"
    /\ calls' = calls

NextAccess ==
    \/ SetBoard
    \/ SetCell
    \/ SetRow
    \/ SetColumn

SpecAccess == Init /\ [][NextAccess]_vars

(***************************************************************************)
(* A played game: from construction, move(d) with spawn, move after move.  *)
(***************************************************************************)
PlayMove ==
    /\ op \in {"init", "move"}
    /\ calls < MaxMoves
    /\ \E d \in ValidDirections : MoveCall(d, TRUE)
    /\ calls' = calls + 1

NextPlay == PlayMove

SpecPlay == Init /\ [][NextPlay]_vars

(***************************************************************************)
(* Vocabulary of the properties.                                           *)
(***************************************************************************)
Cells == 0..15

NonEmpty(b) == { i \in Cells : get_cell(b, i) # 0 }

\* the cells at which two boards differ
DiffCells(a, b) == { i \in Cells : get_cell(a, i) # get_cell(b, i) }

\* `after` is `before` with one empty cell set to exponent 1 or 2
OneTileSpawned(before, after) ==
    \E i \in Cells :
        /\ get_cell(before, i) = 0
        /\ get_cell(after, i) \in {1, 2}
        /\ DiffCells(before, after) = {i}

\* a call of move with a valid direction has returned
Moved == op = "move" /\ raised = "none"

\* no cell is empty and no cell equals its right or down neighbour
Stuck(b) ==
    /\ \A i \in Cells : get_cell(b, i) # 0
    /\ \A r \in 0..3, c \in 0..2 : get_cell(b, 4 * r + c) # get_cell(b, 4 * r + c + 1)
    /\ \A r \in 0..2, c \in 0..3 : get_cell(b, 4 * r + c) # get_cell(b, 4 * (r + 1) + c)

\* the pairs merged in a compacted line, pairing from its leading end
RECURSIVE Pairs(_)
Pairs(c) ==
    IF Len(c) < 2 THEN 0
    ELSE IF c[1] = c[2] THEN 1 + Pairs(SubSeq(c, 3, Len(c)))
    ELSE Pairs(Tail(c))

\* the line of `b` at index k as the move in direction d meets it, leading end first
Oriented(b, d, k) ==
    LET l == IF d \in {"left", "right"} THEN get_row(b, k) ELSE get_column(b, k)
    IN  IF d \in {"right", "down"} THEN Reverse(l) ELSE l

\* the pairs merged on board b by a move in direction d
MergedPairs(b, d) ==
    Pairs(Compact(Oriented(b, d, 0))) + Pairs(Compact(Oriented(b, d, 1)))
    + Pairs(Compact(Oriented(b, d, 2))) + Pairs(Compact(Oriented(b, d, 3)))

(***************************************************************************)
(* C1: move(d, spawn_tile=False) returns true exactly when the board after *)
(* the call differs from the board before it; when it returns false the    *)
(* board is bit-for-bit unchanged.                                         *)
(***************************************************************************)
C1_MovedIffBoardChanged ==
    (Moved /\ ~spawn) => (ret <=> board # pre)

\* a move that changes the last row only and reports it
C1_Witness ==
    /\ Moved /\ ~spawn /\ direction = "left" /\ ret
    /\ board[0] = pre[0] /\ board[1] = pre[1] /\ board[2] = pre[2]
    /\ board[3] # pre[3]

(***************************************************************************)
(* C2: is_game_over() returns true exactly when no cell is empty and no    *)
(* cell equals its right or down neighbour; on a board where it returns    *)
(* true, move(d, spawn_tile=False) returns false and leaves the board      *)
(* unchanged, for each of the four directions.                             *)
(***************************************************************************)
C2_GameOverIffStuck ==
    /\ op = "is_game_over" =>
          /\ ret <=> Stuck(pre)
          /\ board = pre
          /\ ret => \A d \in {"up", "down", "left", "right"} :
                        move_result(pre, d) = [board |-> pre, moved |-> FALSE]
    /\ (Moved /\ ~spawn /\ Stuck(pre)) => (~ret /\ board = pre)

\* is_game_over has answered true
C2_Witness == op = "is_game_over" /\ ret /\ Stuck(board)

(***************************************************************************)
(* C3: when move(d, spawn_tile=True) returns true, the final board is the  *)
(* board move(d, spawn_tile=False) produces, with exactly one of its empty *)
(* cells set to exponent 1 or 2 (the spawn never fails); when move returns *)
(* false, or spawn_tile=False, the board is that of the move alone.        *)
(***************************************************************************)
C3_OneSpawnAfterAllLines ==
    Moved =>
        LET m == move_result(pre, direction)
        IN  /\ ret = m.moved
            /\ IF ret /\ spawn
               THEN OneTileSpawned(m.board, board)
               ELSE board = m.board

\* a successful move with spawn on a board that had no empty cell
C3_Witness ==
    Moved /\ spawn /\ ret /\ NonEmpty(pre) = Cells /\ Cardinality(NonEmpty(board)) < 16

(***************************************************************************)
(* C4 as stated: after a successful move(d, spawn_tile=True) the number of *)
(* non-empty cells is exactly one more than before the move.               *)
(***************************************************************************)
C4_Original ==
    (Moved /\ spawn /\ ret) =>
        Cardinality(NonEmpty(board)) = Cardinality(NonEmpty(pre)) + 1

(***************************************************************************)
(* C4 amended: after a successful move(d, spawn_tile=True) the number of   *)
(* non-empty cells is exactly one more than before the move less the       *)
(* number of pairs the move merged.                                        *)
(***************************************************************************)
C4_CountLessMergesPlusOne ==
    (Moved /\ spawn /\ ret) =>
        Cardinality(NonEmpty(board)) =
            Cardinality(NonEmpty(pre)) - MergedPairs(pre, direction) + 1

\* a successful move with spawn that merged tiles: the count did not grow
C4_Witness ==
    /\ Moved /\ spawn /\ ret
    /\ MergedPairs(pre, direction) >= 2
    /\ Cardinality(NonEmpty(board)) < Cardinality(NonEmpty(pre))

(***************************************************************************)
(* C5: a tile merges at most once per line per move.  Every tile of        *)
(* process_line's result is one tile of its argument or the merge of two   *)
(* equal neighbours of it, taken in order; [e,e,e,e] gives [e+1,e+1,0,0],  *)
(* [e,e,e,0] gives [e+1,e,0,0] and [e,e,e+1,0] gives [e+1,e+1,0,0] for e   *)
(* in 1..14; and the same holds of every row or column move writes.        *)
(***************************************************************************)
\* o is c with some neighbouring equal pairs each replaced by one tile
RECURSIVE OnceMerged(_, _)
OnceMerged(c, o) ==
    IF c = <<>> THEN o = <<>>
    ELSE /\ o # <<>>
         /\ \/ Head(o) = Head(c) /\ OnceMerged(Tail(c), Tail(o))
            \/ /\ Len(c) >= 2 /\ c[1] = c[2]
               /\ Head(o) = (IF c[1] = 15 THEN 15 ELSE c[1] + 1)
               /\ OnceMerged(SubSeq(c, 3, Len(c)), Tail(o))

C5_MergeOncePerLine ==
    /\ op = "process_line" =>
          /\ OnceMerged(Compact(line), Compact(out))
          /\ \A e \in 1..14 :
                /\ line = <<e, e, e, e>> => out = <<e + 1, e + 1, 0, 0>>
                /\ line = <<e, e, e, 0>> => out = <<e + 1, e, 0, 0>>
                /\ line = <<e, e, e + 1, 0>> => out = <<e + 1, e + 1, 0, 0>>
    /\ (Moved /\ ~spawn) =>
          \A k \in 0..3 : OnceMerged(Compact(Oriented(pre, direction, k)),
                                     Compact(Oriented(board, direction, k)))

\* a column of four equal tiles moved down leaves two tiles, not one
C5_Witness ==
    /\ Moved /\ ~spawn /\ direction = "down"
    /\ get_column(pre, 0) = <<1, 1, 1, 1>>
    /\ get_column(board, 0) = <<0, 0, 2, 2>>

(***************************************************************************)
(* C6: merging is capped at exponent 15.  process_line([15,15,0,0]) is     *)
(* [15,0,0,0] and every entry process_line returns is in 0..15; after a    *)
(* move every cell is in 0..15 and no merge has wrapped around to 0: the   *)
(* merge of two leading 15s leaves a 15, and each line keeps one tile per  *)
(* unmerged tile and one per merged pair.                                  *)
(***************************************************************************)
C6_MergeCappedAt15 ==
    /\ op = "process_line" =>
          /\ line = <<15, 15, 0, 0>> => out = <<15, 0, 0, 0>>
          /\ \A k \in 1..4 : out[k] \in 0..15
          /\ Len(Compact(out)) = Len(Compact(line)) - Pairs(Compact(line))
    /\ Moved => \A i \in Cells : get_cell(board, i) \in 0..15
    /\ (Moved /\ ~spawn) =>
          \A k \in 0..3 :
              LET c == Compact(Oriented(pre, direction, k))
                  n == Oriented(board, direction, k)
              IN  /\ Len(Compact(n)) = Len(c) - Pairs(c)
                  /\ (Len(c) >= 2 /\ c[1] = 15 /\ c[2] = 15) => n[1] = 15

\* a row of four 15s moved left
C6_Witness ==
    /\ Moved /\ ~spawn /\ direction = "left"
    /\ get_row(pre, 0) = <<15, 15, 15, 15>>
    /\ get_row(board, 0) = <<15, 15, 0, 0>>

(***************************************************************************)
(* C7: the four directions are one transform up to symmetry.  Without      *)
(* spawn, move('right') is the horizontal mirror of move('left') on the    *)
(* mirrored board, move('down') the vertical flip of move('up') on the     *)
(* flipped board, and move('up') the transpose of move('left') on the      *)
(* transposed board, each with the same return value; a row [1,1,0,0]      *)
(* moved right becomes [0,0,0,2].                                          *)
(***************************************************************************)
\* the board whose cell i holds f[i]
FromCells(f) ==
    [k \in 0..3 |-> f[4 * k] + 16 * f[4 * k + 1] + 256 * f[4 * k + 2] + 4096 * f[4 * k + 3]]

Mirror(b) == FromCells([i \in Cells |-> get_cell(b, 4 * (i \div 4) + 3 - (i % 4))])

Flip(b) == FromCells([i \in Cells |-> get_cell(b, 4 * (3 - (i \div 4)) + (i % 4))])

Transpose(b) == FromCells([i \in Cells |-> get_cell(b, 4 * (i % 4) + (i \div 4))])

C7_DirectionsSymmetric ==
    (Moved /\ ~spawn) =>
        /\ direction = "right" =>
              LET m == move_result(Mirror(pre), "left")
              IN  board = Mirror(m.board) /\ ret = m.moved
        /\ direction = "down" =>
              LET m == move_result(Flip(pre), "up")
              IN  board = Flip(m.board) /\ ret = m.moved
        /\ direction = "up" =>
              LET m == move_result(Transpose(pre), "left")
              IN  board = Transpose(m.board) /\ ret = m.moved
        /\ \A k \in 0..3 :
              (direction = "right" /\ get_row(pre, k) = <<1, 1, 0, 0>>)
                  => get_row(board, k) = <<0, 0, 0, 2>>

\* the row [1,1,0,0] moved right
C7_Witness ==
    /\ Moved /\ ~spawn /\ direction = "right" /\ ret
    /\ get_row(pre, 0) = <<1, 1, 0, 0>>
    /\ get_row(board, 0) = <<0, 0, 0, 2>>
    /\ get_row(pre, 1) = <<1, 2, 1, 2>>

(***************************************************************************)
(* C8: move with a direction other than 'up', 'down', 'left', 'right'      *)
(* raises ValueError, for either value of spawn_tile, and leaves the board *)
(* as it was: no line is rewritten and no tile is spawned.                 *)
(***************************************************************************)
C8_InvalidDirectionRaises ==
    (op = "move" /\ direction \notin {"up", "down", "left", "right"}) =>
        (raised = "ValueError" /\ board = pre)

\* an invalid direction with spawn_tile=True, on a board a left move would change
C8_Witness ==
    /\ op = "move" /\ direction = "invalid_direction" /\ spawn
    /\ raised = "ValueError"
    /\ move_result(pre, "left").moved
    /\ move_result(pre, "up").moved

(***************************************************************************)
(* C9: spawn_tile() returns false exactly when no cell is empty, and then  *)
(* leaves the board unchanged; otherwise it returns true and sets exactly  *)
(* one cell, empty before the call, to exponent 1 or 2, leaving the other  *)
(* fifteen unchanged.  Every empty cell and both exponents are possible.   *)
(***************************************************************************)
C9_SpawnTile ==
    /\ op = "spawn_tile" =>
          /\ ret <=> (\E i \in Cells : get_cell(pre, i) = 0)
          /\ ~ret => board = pre
          /\ ret => OneTileSpawned(pre, board)
    /\ Ready =>
          \A i \in Cells, v \in {1, 2} :
              get_cell(board, i) = 0 =>
                  ENABLED (SpawnTile /\ get_cell(board', i) = v /\ ret')

\* exponent 2 spawned in the last cell of a board with two empty cells
C9_Witness ==
    /\ op = "spawn_tile" /\ ret
    /\ Cardinality(NonEmpty(pre)) = 14
    /\ get_cell(pre, 15) = 0 /\ get_cell(board, 15) = 2

(***************************************************************************)
(* C10: after construction, and after reset() in any board state, the      *)
(* board holds exactly two non-empty cells, each of exponent 1 or 2, and   *)
(* the other fourteen cells are empty.                                     *)
(***************************************************************************)
C10_TwoTilesAfterReset ==
    op \in {"init", "reset"} =>
        /\ Cardinality(NonEmpty(board)) = 2
        /\ \A i \in NonEmpty(board) : get_cell(board, i) \in {1, 2}

\* reset called on a board with no empty cell
C10_Witness ==
    /\ op = "reset" /\ NonEmpty(pre) = Cells
    /\ Cardinality(NonEmpty(board)) = 2
    /\ get_cell(board, 0) = 2 /\ get_cell(board, 1) = 1

(***************************************************************************)
(* C11 and its amendment.  The merges that account for a result are        *)
(* counted exponent by exponent, from the lowest: m(v) merges of two tiles *)
(* of exponent v take 2 * m(v) tiles of the argument away and leave m(v)   *)
(* tiles of the merged exponent.                                           *)
(***************************************************************************)
CountOf(l, v) == Cardinality({ k \in 1..Len(l) : l[k] = v })

\* the non-zero entries form a prefix
ZerosTrail(o) == \A k \in 1..(Len(o) - 1) : o[k] = 0 => o[k + 1] = 0

\* the merges of exponent v < 15 that turn the tiles of l into those of o, -1 if none do
RECURSIVE MergesOf(_, _, _)
MergesOf(l, o, v) ==
    IF v = 0 THEN 0
    ELSE LET below == MergesOf(l, o, v - 1)
             twice == CountOf(l, v) + below - CountOf(o, v)
         IN  IF below < 0 \/ twice < 0 \/ twice % 2 # 0 \/ twice > CountOf(l, v)
             THEN -1
             ELSE twice \div 2

\* every merge of two tiles of exponent e leaves one tile of exponent e + 1
MergedStrictly(l, o) ==
    /\ MergesOf(l, o, 15) >= 0
    /\ CountOf(o, 16) = MergesOf(l, o, 15)
    /\ \A k \in 1..Len(o) : o[k] \in 0..16

\* every merge of two tiles of exponent e leaves one tile of exponent min(e + 1, 15)
MergedCapped(l, o) ==
    LET below == MergesOf(l, o, 14)
        m15   == CountOf(l, 15) + below - CountOf(o, 15)
    IN  /\ below >= 0
        /\ m15 >= 0 /\ 2 * m15 <= CountOf(l, 15)
        /\ \A k \in 1..Len(o) : o[k] \in 0..15

(***************************************************************************)
(* C11 as stated: process_line(L) has its non-zero entries in a prefix,    *)
(* and holds the non-zero values of L except that every merge removes two  *)
(* equal tiles of exponent e and puts in one tile of exponent e + 1.       *)
(***************************************************************************)
C11_Original ==
    op = "process_line" => (ZerosTrail(out) /\ MergedStrictly(line, out))

(***************************************************************************)
(* C11 amended: process_line(L) has its non-zero entries in a prefix, and  *)
(* holds the non-zero values of L except that every merge removes two      *)
(* equal tiles of exponent e and puts in one tile of exponent e + 1 when   *)
(* e < 15, and of exponent 15 when e = 15.                                 *)
(***************************************************************************)
C11_CompactedUpToMerges ==
    op = "process_line" =>
        /\ Len(out) = 4
        /\ ZerosTrail(out)
        /\ MergedCapped(line, out)
        /\ (\A k \in 1..4 : line[k] # 15) => MergedStrictly(line, out)

\* a pair of 15s and a pair of 3s: one 15 and one 4 come out
C11_Witness ==
    op = "process_line" /\ line = <<15, 15, 3, 3>> /\ out = <<15, 4, 0, 0>>

(***************************************************************************)
(* C14: across any call of move, in any direction, with or without spawn,  *)
(* the largest exponent on the board never decreases.                      *)
(***************************************************************************)
\* the largest exponent on board b
MaxExponent(b) ==
    LET held == { get_cell(b, i) : i \in Cells }
    IN  CHOOSE e \in held : \A f \in held : f <= e

C14_MaxExponentNeverDecreases ==
    op = "move" => MaxExponent(board) >= MaxExponent(pre)

\* a move with spawn that merges every 15 of a board full of them
C14_Witness ==
    /\ Moved /\ spawn /\ ret /\ direction = "up"
    /\ \A i \in Cells : get_cell(pre, i) = 15
    /\ MaxExponent(board) = 15
    /\ Cardinality(NonEmpty(board)) = 9

(***************************************************************************)
(* C12: on any board, for every index i in 0..15 and every non-negative    *)
(* value v, set_cell(i, v) makes get_cell(i) return v mod 16, leaves the   *)
(* other fifteen cells unchanged and keeps the packed board within 64 bits *)
(* (each of its four limbs within 16 bits).                                *)
(***************************************************************************)
C12_SetCellMasksAndFrames ==
    op = "set_cell" =>
        /\ get_cell(board, arg_index) = arg_value % 16
        /\ \A j \in Cells \ {arg_index} : get_cell(board, j) = get_cell(pre, j)
        /\ \A k \in 0..3 : board[k] \in 0..65535

\* a value above 15 written over a tile, next to other tiles
C12_Witness ==
    /\ op = "set_cell" /\ arg_index = 5 /\ arg_value = 17
    /\ get_cell(pre, 5) = 15 /\ get_cell(pre, 6) = 15
    /\ get_cell(board, 5) = 1

(***************************************************************************)
(* C13: get_row(r) after set_row(r, L) is L and get_column(c) after        *)
(* set_column(c, L) is L; set_row(r, L) changes no cell outside row r and  *)
(* set_column(c, L) none outside column c; and on every board              *)
(* get_row(r)[c] = get_column(c)[r] = get_cell(4*r + c).                   *)
(***************************************************************************)
C13_RowColumnRoundTrip ==
    /\ op = "set_row" =>
          /\ get_row(board, arg_index) = line
          /\ \A j \in Cells : j \div 4 # arg_index => get_cell(board, j) = get_cell(pre, j)
    /\ op = "set_column" =>
          /\ get_column(board, arg_index) = line
          /\ \A j \in Cells : j % 4 # arg_index => get_cell(board, j) = get_cell(pre, j)
    /\ op \in {"init", "set_board", "set_row", "set_column"} =>
          /\ \A r \in 0..3 : \E row \in {get_row(board, r)} :
                \A c \in 0..3 : row[c + 1] = get_cell(board, 4 * r + c)
          /\ \A c \in 0..3 : \E col \in {get_column(board, c)} :
                \A r \in 0..3 : col[r + 1] = get_cell(board, 4 * r + c)

\* a column written over a full board
C13_Witness ==
    /\ op = "set_column" /\ arg_index = 2 /\ line = <<1, 2, 3, 4>>
    /\ NonEmpty(pre) = Cells
    /\ get_column(board, 2) = <<1, 2, 3, 4>>
    /\ get_row(board, 1) = <<2, 1, 2, 1>>

====
